---------------------------- MODULE Spec2Model ----------------------------
(***************************************************************************)
(* A model of src/build_dataset.py: the helpers format_ids and             *)
(* merge_ins_uoa and the batch pipeline build_dataset.                     *)
(*                                                                         *)
(* Representation.  A DataFrame is a record [cols, rows]: the set of its   *)
(* column names and the sequence of its rows, each row a record over cols. *)
(* A cell is a string, or the value NaN when it is missing (numpy nan or   *)
(* pandas NA): a text cell is its text,                                    *)
(* an integer cell is the decimal numeral str(n) of its value, so that an  *)
(* integer column is one whose cells are all such numerals (or NaN, for a  *)
(* nullable one).  A GPA cell holds 100 x GPA so that it stays whole.      *)
(* The column rid stands for the pandas row label a survey row keeps       *)
(* through filtering: it identifies the respondent.                        *)
(***************************************************************************)
EXTENDS Integers, Sequences, FiniteSets, TLC

VARIABLES
    pc,          \* position of the running function
    files,       \* the input files on disk
    df,          \* build_dataset: the survey table
    df_clean,    \* build_dataset: the recoded survey table
    raw_results, \* build_dataset: the evaluation results, ids formatted
    wide_score_card, \* build_dataset: the results, one row per unit
    env,         \* build_dataset: the three environment tables
    raw_dep,     \* build_dataset: the department-level table
    df_merge,    \* build_dataset: the merged table
    out_files,   \* the CSV files written, in the order written
    log,         \* the numbers written to the log, by log line
    arg,         \* the arguments of a direct call of a helper
    ret          \* what the running function returned or raised

vars == <<pc, files, df, df_clean, raw_results, wide_score_card, env, raw_dep,
          df_merge, out_files, log, arg, ret>>

----------------------------------------------------------------------------
(* Cells *)

NaN == "<NaN>"

Char(s, i) == SubSeq(s, i, i)

IsDigit(c) == c \in {"0", "1", "2", "3", "4", "5", "6", "7", "8", "9"}

DigitVal(c) ==
    CASE c = "0" -> 0 [] c = "1" -> 1 [] c = "2" -> 2 [] c = "3" -> 3
      [] c = "4" -> 4 [] c = "5" -> 5 [] c = "6" -> 6 [] c = "7" -> 7
      [] c = "8" -> 8 [] c = "9" -> 9

DigitChar(d) ==
    CASE d = 0 -> "0" [] d = 1 -> "1" [] d = 2 -> "2" [] d = 3 -> "3"
      [] d = 4 -> "4" [] d = 5 -> "5" [] d = 6 -> "6" [] d = 7 -> "7"
      [] d = 8 -> "8" [] d = 9 -> "9"

IsSpace(c) == c \in {" ", "\t", "\n"}

RECURSIVE LStrip(_)
LStrip(s) == IF Len(s) > 0 /\ IsSpace(Char(s, 1)) THEN LStrip(Tail(s)) ELSE s

RECURSIVE RStrip(_)
RStrip(s) ==
    IF Len(s) > 0 /\ IsSpace(Char(s, Len(s)))
    THEN RStrip(SubSeq(s, 1, Len(s) - 1)) ELSE s

\* str.strip()
Strip(s) == RStrip(LStrip(s))

AllDigits(s) == Len(s) > 0 /\ \A i \in 1..Len(s) : IsDigit(Char(s, i))

RECURSIVE DigitsVal(_)
DigitsVal(s) ==
    IF Len(s) = 0 THEN 0
    ELSE 10 * DigitsVal(SubSeq(s, 1, Len(s) - 1)) + DigitVal(Char(s, Len(s)))

\* Whether int(x) accepts the cell: surrounding white space, an optional
\* sign, then digits.  int() of a missing cell (float nan) raises.
IsIntText(s) ==
    /\ s # NaN
    /\ LET t == Strip(s)
           u == IF Len(t) > 0 /\ Char(t, 1) \in {"+", "-"} THEN Tail(t) ELSE t
       IN  AllDigits(u)

\* int(x) of a cell int() accepts
IntOf(s) ==
    LET t == Strip(s)
    IN  IF Char(t, 1) = "-" THEN 0 - DigitsVal(Tail(t))
        ELSE IF Char(t, 1) = "+" THEN DigitsVal(Tail(t))
        ELSE DigitsVal(t)

RECURSIVE NatToStr(_)
NatToStr(n) ==
    IF n < 10 THEN DigitChar(n) ELSE NatToStr(n \div 10) \o DigitChar(n % 10)

\* str(n) of an integer
IntToStr(n) == IF n < 0 THEN "-" \o NatToStr(0 - n) ELSE NatToStr(n)

----------------------------------------------------------------------------
(* Tables *)

Table(cols, rows) == [cols |-> cols, rows |-> rows]

EmptyTable == Table({}, <<>>)

\* what a call that raised leaves behind (the exception and the source line
\* that raised it), and what one that returned does
Raise(e, line) == [ok |-> FALSE, err |-> e, at |-> line]
Return(v) == [ok |-> TRUE, val |-> v]
NotCalled == Raise("not called", 0)

\* df[c] == v, df[c] != v, df[c].isnull(), df[c].notnull(): one truth value
\* per row
Eq(t, c, v) == [i \in 1..Len(t.rows) |-> t.rows[i][c] = v]
Ne(t, c, v) == [i \in 1..Len(t.rows) |-> t.rows[i][c] # v]
IsNull(t, c) == Eq(t, c, NaN)
NotNull(t, c) == Ne(t, c, NaN)

\* mask1 | mask2, mask1 & mask2
MaskOr(m1, m2) == [i \in DOMAIN m1 |-> m1[i] \/ m2[i]]
MaskAnd(m1, m2) == [i \in DOMAIN m1 |-> m1[i] /\ m2[i]]

\* df[mask]: the rows whose truth value is True, in their order
Filter(t, mask) ==
    LET acc[i \in 0..Len(t.rows)] ==
            IF i = 0 THEN <<>>
            ELSE IF mask[i] THEN Append(acc[i - 1], t.rows[i])
            ELSE acc[i - 1]
    IN  Table(t.cols, acc[Len(t.rows)])

\* df[[c1, c2, ...]]
Project(t, cs) == Table(cs, [i \in 1..Len(t.rows) |-> [c \in cs |-> t.rows[i][c]]])

\* df.rename(columns={old: new}); a name that is no column is ignored
Rename(t, old, new) ==
    IF old \notin t.cols THEN t
    ELSE LET cs == (t.cols \ {old}) \cup {new}
         IN  Table(cs, [i \in 1..Len(t.rows) |->
                 [c \in cs |-> IF c = new THEN t.rows[i][old] ELSE t.rows[i][c]]])

\* the values of a column
Column(t, c) == {t.rows[i][c] : i \in 1..Len(t.rows)}

\* pd.merge(L, R, how=how, left_on=lk, right_on=rk) for how in left, inner:
\* the rows of L in order, each once per matching row of R (in R's order);
\* a row of L that no row of R matches is kept once, with R's columns
\* missing, by a left join and dropped by an inner join.  Missing keys match
\* each other.  A key column named alike on both sides appears once; any
\* other column named alike on both sides gets the suffixes _x and _y.
Merge(L, R, lk, rk, how) ==
    LET shared == {lk[i] : i \in {j \in 1..Len(lk) : lk[j] = rk[j]}}
        overlap == (L.cols \cap R.cols) \ shared
        LName(c) == IF c \in overlap THEN c \o "_x" ELSE c
        RName(c) == IF c \in overlap THEN c \o "_y" ELSE c
        rcols == R.cols \ shared
        lnew == {LName(c) : c \in L.cols}
        cols == lnew \cup {RName(c) : c \in rcols}
        LSrc(c) == IF c \in L.cols \ overlap THEN c
                   ELSE CHOOSE c0 \in L.cols : LName(c0) = c
        RSrc(c) == IF c \in rcols \ overlap THEN c
                   ELSE CHOOSE c0 \in rcols : RName(c0) = c
        Match(l, r) == \A i \in 1..Len(lk) : l[lk[i]] = r[rk[i]]
        Joined(l, r) == [c \in cols |-> IF c \in lnew THEN l[LSrc(c)] ELSE r[RSrc(c)]]
        Unmatched(l) == [c \in cols |-> IF c \in lnew THEN l[LSrc(c)] ELSE NaN]
        Hits(l) == SelectSeq(R.rows, LAMBDA r : Match(l, r))
        For(l) == LET hits == Hits(l)
                  IN  IF hits = <<>>
                      THEN IF how = "left" THEN <<Unmatched(l)>> ELSE <<>>
                      ELSE [i \in 1..Len(hits) |-> Joined(l, hits[i])]
        acc[i \in 0..Len(L.rows)] ==
            IF i = 0 THEN <<>> ELSE acc[i - 1] \o For(L.rows[i])
    IN  Table(cols, acc[Len(L.rows)])

\* the slip of joining with how='inner'
MergeLeft_inner(L, R, lk, rk) == Merge(L, R, lk, rk, "inner")

\* pd.merge(L, R, how='left', ...) and DataFrame.merge(R, how='left', ...)
MergeLeft(L, R, lk, rk) == Merge(L, R, lk, rk, "left")

----------------------------------------------------------------------------
(* format_ids *)

\* the slip of taking any UKPRN column for the institution id
RenameInstId_any(t) ==
    Rename(Rename(Rename(t, "Institution UKPRN code", "inst_id"),
                  "Institution code (UKPRN)", "inst_id"),
           "UKPRN", "inst_id")

\* lines 27-30: either name of the institution id column becomes inst_id
RenameInstId(t) ==
    Rename(Rename(t, "Institution UKPRN code", "inst_id"),
           "Institution code (UKPRN)", "inst_id")

\* the slip of coercing without dropping the blank ids first
DropBlankIds_skipped(t) == t

\* line 31: df[df['inst_id'] != ' ']
DropBlankIds(t) == Filter(t, Ne(t, "inst_id", " "))

\* line 33: df.astype({'inst_id': 'int'})
CanCoerceInstId(t) == \A i \in 1..Len(t.rows) : IsIntText(t.rows[i]["inst_id"])

CoerceInstId(t) ==
    Table(t.cols, [i \in 1..Len(t.rows) |->
        [t.rows[i] EXCEPT !["inst_id"] = IntToStr(IntOf(@))]])

\* the slip of leaving out fillna(''), so that a missing letter reads 'nan'
UoaId_nofill(number, letter) ==
    IntToStr(IntOf(number)) \o (IF letter = NaN THEN "nan" ELSE letter)

\* lines 34-35: int(number) as text, then the letter, '' when it is missing
UoaId(number, letter) ==
    IntToStr(IntOf(number)) \o (IF letter = NaN THEN "" ELSE letter)

AddUoaId(t) ==
    Table(t.cols \cup {"uoa_id"}, [i \in 1..Len(t.rows) |->
        [c \in t.cols \cup {"uoa_id"} |->
            IF c = "uoa_id"
            THEN UoaId(t.rows[i]["Unit of assessment number"],
                       t.rows[i]["Multiple submission letter"])
            ELSE t.rows[i][c]]])

format_ids(t) ==
    LET renamed == RenameInstId(t)
        kept == DropBlankIds(renamed)
    IN  IF "inst_id" \notin renamed.cols THEN Raise("KeyError", 31)
        ELSE IF ~CanCoerceInstId(kept) THEN Raise("ValueError", 33)
        ELSE IF "Unit of assessment number" \notin t.cols THEN Raise("KeyError", 34)
        ELSE IF \E i \in 1..Len(kept.rows) :
                    ~IsIntText(kept.rows[i]["Unit of assessment number"])
             THEN Raise("ValueError", 34)
        ELSE IF "Multiple submission letter" \notin t.cols THEN Raise("KeyError", 35)
        ELSE Return(AddUoaId(CoerceInstId(kept)))

----------------------------------------------------------------------------
(* merge_ins_uoa *)

\* the slip of asserting any(...) for all(...)
AllIsIn_any(df1, df2, id) == Column(df1, id) \cap Column(df2, id) # {}

\* lines 53-54: all(df1[id].isin(df2[id]))
AllIsIn(df1, df2, id) == Column(df1, id) \subseteq Column(df2, id)

merge_ins_uoa(df1, df2, id1, id2) ==
    IF ~AllIsIn(df1, df2, id1) THEN Raise("AssertionError", 53)
    ELSE IF ~AllIsIn(df1, df2, id2) THEN Raise("AssertionError", 54)
    ELSE Return(MergeLeft(df1, df2, <<id1, id2>>, <<id1, id2>>))

----------------------------------------------------------------------------
(* build_dataset: the survey filters and the recoding (lines 60-398) *)

\* line 62: (df['Q1'] == 'No') | (df['Q2'] == 'No')
AnsweredNo(t) == MaskOr(Eq(t, "Q1", "No"), Eq(t, "Q2", "No"))

\* the slip of filtering on the first consent question only
Consented_Q1(t) == Ne(t, "Q1", "No")

\* line 63: (df['Q1'] != 'No') & (df['Q2'] != 'No')
Consented(t) == MaskAnd(Ne(t, "Q1", "No"), Ne(t, "Q2", "No"))

\* line 65: df['Q10'] == ''
Q10Missing(t) == Eq(t, "Q10", "")

\* line 66: df['Q10'] != ''
Q10Present(t) == Ne(t, "Q10", "")

\* len(df[mask])
Count(t, mask) == Len(Filter(t, mask).rows)

\* astype(str): a missing cell becomes the text 'nan'
AsStr(c) == IF c = NaN THEN "nan" ELSE c

\* replace('nan', ''): a cell that is exactly 'nan' becomes empty
ReplaceNan(c) == IF c = "nan" THEN "" ELSE c

\* the position of the first c in s, 0 when there is none
FirstPos(s, c) ==
    IF \E i \in 1..Len(s) : Char(s, i) = c
    THEN CHOOSE i \in 1..Len(s) :
             Char(s, i) = c /\ \A j \in 1..(i - 1) : Char(s, j) # c
    ELSE 0

\* str.replace(r':.*', '', regex=True) on a one-line cell
TruncAtColon(s) ==
    IF FirstPos(s, ":") = 0 THEN s ELSE SubSeq(s, 1, FirstPos(s, ":") - 1)

\* the slip of leaving runs of colons as they are
SquashColons_none(s) == s

\* str.replace(':+', ':', regex=True)
RECURSIVE SquashColons(_)
SquashColons(s) ==
    IF Len(s) < 2 THEN s
    ELSE IF Char(s, 1) = ":" /\ Char(s, 2) = ":" THEN SquashColons(Tail(s))
    ELSE Char(s, 1) \o SquashColons(Tail(s))

\* str.strip(':')
RECURSIVE StripColons(_)
StripColons(s) ==
    IF Len(s) > 0 /\ Char(s, 1) = ":" THEN StripColons(Tail(s))
    ELSE IF Len(s) > 0 /\ Char(s, Len(s)) = ":"
    THEN StripColons(SubSeq(s, 1, Len(s) - 1))
    ELSE s

\* lines 72-74: one sub-column's cell, cleaned
CleanPart(c) == TruncAtColon(Strip(ReplaceNan(AsStr(c))))

\* lines 69-76: the sub-columns prefix1..prefixN of a row joined by colons
Collapse(r, prefix, n) ==
    LET acc[q \in 0..n] ==
            IF q = 0 THEN ""
            ELSE acc[q - 1] \o CleanPart(r[prefix \o IntToStr(q)]) \o ":"
    IN  StripColons(SquashColons(acc[n]))

\* the number of Q3 sub-columns (line 70)
NumQ3 == 6

\* np.where(key == rule[1], rule[2], old), rule after rule
RECURSIVE WhereChain(_, _, _)
WhereChain(rules, key, old) ==
    IF rules = <<>> THEN old
    ELSE WhereChain(Tail(rules), key,
                    IF key = Head(rules)[1] THEN Head(rules)[2] ELSE old)

\* lines 139-173
Q8Rules == <<
        <<"Clinical Medicine", "1">>,
        <<"Public Health, Health Services and Primary Care", "2">>,
        <<"Allied Health Professions, Dentistry, Nursing and Pharmacy", "3">>,
        <<"Psychology, Psychiatry and Neuroscience", "4">>,
        <<"Biological Sciences", "5">>,
        <<"Agriculture, Food and Veterinary Sciences", "6">>,
        <<"Earth Systems and Environmental Sciences", "7">>,
        <<"Chemistry", "8">>,
        <<"Physics", "9">>,
        <<"Mathematical Sciences", "10">>,
        <<"Computer Science and Informatics", "11">>,
        <<"Engineering", "12">>,
        <<"Architecture, Built Environment and Planning", "13">>,
        <<"Geography and Environmental Studies", "14">>,
        <<"Archaeology", "15">>,
        <<"Economics and Econometrics", "16">>,
        <<"Business and Management Studies", "17">>,
        <<"Law", "18">>,
        <<"Politics and International Studies", "19">>,
        <<"Social Work and Social Policy", "20">>,
        <<"Sociology", "21">>,
        <<"Anthropology and Development Studies", "22">>,
        <<"Education", "23">>,
        <<"Sport and Exercise Sciences, Leisure and Tourism", "24">>,
        <<"Area Studies", "25">>,
        <<"Modern Languages and Linguistics", "26">>,
        <<"English Language and Literature", "27">>,
        <<"History", "28">>,
        <<"Classics", "29">>,
        <<"Philosophy", "30">>,
        <<"Theology and Religious Studies", "31">>,
        <<"Art and Design: History, Practice and Theory", "32">>,
        <<"Music, Drama, Dance, Performing Arts, Film and Screen Studies", "33">>,
        <<"Communication, Cultural and Media Studies, Library and Information Management", "34">>,
        <<"Other", NaN>> >>

\* lines 178-182
Q8aRules == <<
        <<"Demography", "21">>,
        <<"Medical ethics", "30">>,
        <<"Criminology", "21">>,
        <<"Political economy", "16">>,
        <<"Gerontology", "21">>
    >>

\* lines 138-173: the code of the subject-area name, the name itself when no
\* rule names it
Q8Code(q8) == WhereChain(Q8Rules, q8, q8)

\* astype('Int64') accepts a missing cell and a whole number
IsInt64(c) == c = NaN \/ IsIntText(c)
AsInt64(c) == IF c = NaN THEN NaN ELSE IntToStr(IntOf(c))

\* the slip of leaving the write-in field unread
Q8_uoa_no_write_in(q8, q8_a) == AsInt64(Q8Code(q8))

\* lines 138-182
Q8_uoa(q8, q8_a) == WhereChain(Q8aRules, q8_a, AsInt64(Q8Code(q8)))

\* lines 184-217
PanelRules == <<
        <<"1", "A">>, <<"2", "A">>, <<"3", "A">>, <<"4", "A">>,
        <<"5", "A">>, <<"6", "A">>, <<"7", "B">>, <<"8", "B">>,
        <<"9", "B">>, <<"10", "B">>, <<"11", "B">>, <<"12", "B">>,
        <<"13", "C">>, <<"14", "C">>, <<"15", "C">>, <<"16", "C">>,
        <<"17", "C">>, <<"18", "C">>, <<"19", "C">>, <<"20", "C">>,
        <<"21", "C">>, <<"22", "C">>, <<"23", "C">>, <<"24", "C">>,
        <<"25", "D">>, <<"26", "D">>, <<"27", "D">>, <<"28", "D">>,
        <<"29", "D">>, <<"30", "D">>, <<"31", "D">>, <<"32", "D">>,
        <<"33", "D">>, <<"34", "D">>
    >>

\* lines 219-252
StemShapeRules == <<
        <<"1", "STEM">>, <<"2", "STEM">>, <<"3", "STEM">>, <<"4", "SHAPE">>,
        <<"5", "STEM">>, <<"6", "STEM">>, <<"7", "STEM">>, <<"8", "STEM">>,
        <<"9", "STEM">>, <<"10", "STEM">>, <<"11", "STEM">>, <<"12", "STEM">>,
        <<"13", "SHAPE">>, <<"14", "SHAPE">>, <<"15", "SHAPE">>, <<"16", "SHAPE">>,
        <<"17", "SHAPE">>, <<"18", "SHAPE">>, <<"19", "SHAPE">>, <<"20", "SHAPE">>,
        <<"21", "SHAPE">>, <<"22", "SHAPE">>, <<"23", "SHAPE">>, <<"24", "SHAPE">>,
        <<"25", "SHAPE">>, <<"26", "SHAPE">>, <<"27", "SHAPE">>, <<"28", "SHAPE">>,
        <<"29", "SHAPE">>, <<"30", "SHAPE">>, <<"31", "SHAPE">>, <<"32", "SHAPE">>,
        <<"33", "SHAPE">>, <<"34", "SHAPE">>
    >>

\* lines 256-289
StemShapeBinaryRules == <<
        <<"1", "1">>, <<"2", "1">>, <<"3", "1">>, <<"4", "0">>,
        <<"5", "1">>, <<"6", "1">>, <<"7", "1">>, <<"8", "1">>,
        <<"9", "1">>, <<"10", "1">>, <<"11", "1">>, <<"12", "1">>,
        <<"13", "0">>, <<"14", "0">>, <<"15", "0">>, <<"16", "0">>,
        <<"17", "0">>, <<"18", "0">>, <<"19", "0">>, <<"20", "0">>,
        <<"21", "0">>, <<"22", "0">>, <<"23", "0">>, <<"24", "0">>,
        <<"25", "0">>, <<"26", "0">>, <<"27", "0">>, <<"28", "0">>,
        <<"29", "0">>, <<"30", "0">>, <<"31", "0">>, <<"32", "0">>,
        <<"33", "0">>, <<"34", "0">>
    >>

\* lines 183-217: np.where puts text into a column of nan, which makes the
\* column text and every cell no rule names the text 'nan'
Q8_panel(uoa) == WhereChain(PanelRules, uoa, "nan")

\* the slip of reading the domain off the panel
Q8_stemshape_by_panel(uoa) ==
    CASE Q8_panel(uoa) \in {"A", "B"} -> "STEM"
      [] Q8_panel(uoa) \in {"C", "D"} -> "SHAPE"
      [] OTHER -> "nan"

\* lines 218-252
Q8_stemshape(uoa) == WhereChain(StemShapeRules, uoa, "nan")

\* lines 255-289: a column of numbers, missing where no rule names the code
Q8_stemshape_binary(uoa) == WhereChain(StemShapeBinaryRules, uoa, NaN)

\* the columns of df_clean the merge, the audit and the flags read, Q10 and
\* the subject-area columns
CleanCols ==
    {"rid", "Q1", "Q3", "Q8", "Q8_a", "Q8_uoa", "Q8_panel", "Q8_stemshape",
     "Q8_stemshape_binary", "Q10", "PIPD"}

\* lines 77, 87, 132-289, 296, 398: the recoded row of a survey row
CleanRow(r) ==
    [c \in CleanCols |->
        CASE c = "rid" -> r["rid"]
          [] c = "Q1" -> Collapse(r, "Q3_", NumQ3)
          [] c = "Q3" -> r["Q3_c"]
          [] c = "Q8" -> r["Q8"]
          [] c = "Q8_a" -> r["Q8_a"]
          [] c = "Q8_uoa" -> Q8_uoa(r["Q8"], r["Q8_a"])
          [] c = "Q8_panel" -> Q8_panel(Q8_uoa(r["Q8"], r["Q8_a"]))
          [] c = "Q8_stemshape" -> Q8_stemshape(Q8_uoa(r["Q8"], r["Q8_a"]))
          [] c = "Q8_stemshape_binary" ->
                Q8_stemshape_binary(Q8_uoa(r["Q8"], r["Q8_a"]))
          [] c = "Q10" -> r["Q10"]
          [] c = "PIPD" -> AsInt64(r["Q28"])]

\* line 89-90: orgs is empty, so that its row 0 does not exist, when Q3 is a
\* text column and no respondent names an institution other than 'Other'
NoModal(t) ==
    \A i \in 1..Len(t.rows) : t.rows[i]["Q3_c"] \in {"Other", NaN}

\* lines 297-302: the Q10 answers are cast to int, and int() of their mean
\* raises when there is none
Q10Answers(t) == Column(t, "Q10") \ {NaN}

\* lines 68-398: what the recoding raises, or the recoded table.  q3_text is
\* whether Q3_c was read as a text column (a categorical column counts its
\* unused categories too, and orgs is never empty)
Recode(t, q3_text) ==
    IF q3_text /\ NoModal(t) THEN Raise("KeyError", 90)
    ELSE IF \E i \in 1..Len(t.rows) : ~IsInt64(Q8Code(t.rows[i]["Q8"]))
         THEN Raise("ValueError", 174)
    ELSE IF \E c \in Q10Answers(t) : ~IsIntText(c) THEN Raise("ValueError", 297)
    ELSE IF Q10Answers(t) = {} THEN Raise("ValueError", 302)
    ELSE IF \E i \in 1..Len(t.rows) : ~IsInt64(t.rows[i]["Q28"])
         THEN Raise("TypeError", 398)
    ELSE Return(Table(CleanCols, [i \in 1..Len(t.rows) |-> CleanRow(t.rows[i])]))

----------------------------------------------------------------------------
(* build_dataset: the ranked questions (lines 312-394) *)

\* the sub-columns of an item of a ranked question (lines 314-317)
NumLikert == 7

\* the slip of filling forwards, which takes the last answer for the first
FirstNonNull_last(cells) ==
    IF \A q \in 1..Len(cells) : cells[q] = NaN THEN NaN
    ELSE cells[CHOOSE q \in 1..Len(cells) :
                   cells[q] # NaN /\ \A p \in (q + 1)..Len(cells) : cells[p] = NaN]

\* lines 314-317: bfill(axis=1).iloc[:, 0], the first cell that is not
\* missing, missing when all are
FirstNonNull(cells) ==
    IF \A q \in 1..Len(cells) : cells[q] = NaN THEN NaN
    ELSE cells[CHOOSE q \in 1..Len(cells) :
                   cells[q] # NaN /\ \A p \in 1..(q - 1) : cells[p] = NaN]

\* str.replace(pat, repl) with a literal pattern: every occurrence, left to
\* right; a missing cell stays missing
RECURSIVE ReplaceAll(_, _, _)
ReplaceAll(s, pat, repl) ==
    IF Len(s) < Len(pat) THEN s
    ELSE IF SubSeq(s, 1, Len(pat)) = pat
    THEN repl \o ReplaceAll(SubSeq(s, Len(pat) + 1, Len(s)), pat, repl)
    ELSE SubSeq(s, 1, 1) \o ReplaceAll(Tail(s), pat, repl)

StrReplace(c, pat, repl) == IF c = NaN THEN NaN ELSE ReplaceAll(c, pat, repl)

\* the question families collapsed this way, each with the labels of its
\* three anchors and the line of its astype('Int64')
LikertFamilies == {
    [name |-> "Q12", top |-> "(3) extremely possible",
     bottom |-> "(-3) not at all possible", middle |-> "(0) neither", at |-> 321],
    [name |-> "Q17", top |-> "(3) extremely important",
     bottom |-> "(-3) not at all important", middle |-> "(0) modest importance",
     at |-> 366],
    [name |-> "Q18", top |-> "(3) extremely important",
     bottom |-> "(-3) not at all important", middle |-> "(0) modestly important",
     at |-> 381],
    [name |-> "Q18a", top |-> "(3) extremely able",
     bottom |-> "(-3) not at all able", middle |-> "(0) modestly able",
     at |-> 393] }

\* lines 314-321, 359-366, 374-381, 386-393: one item of one respondent
Likert(cells, family) ==
    LET first == FirstNonNull(cells)
        coded == StrReplace(StrReplace(StrReplace(first, family.top, "3"),
                                       family.bottom, "-3"),
                            family.middle, "0")
    IN  IF IsInt64(coded) THEN Return(AsInt64(coded))
        ELSE Raise("ValueError", family.at)

----------------------------------------------------------------------------
(* build_dataset: the department-level table (lines 400-466) *)

\* line 407
score_types == <<"4*", "3*", "2*", "1*", "Unclassified">>

Range(f) == {f[i] : i \in DOMAIN f}

\* the distinct members of a sequence, in the order of their first places
Distinct(seq) ==
    LET acc[i \in 0..Len(seq)] ==
            IF i = 0 THEN <<>>
            ELSE IF seq[i] \in Range(acc[i - 1]) THEN acc[i - 1]
            ELSE Append(acc[i - 1], seq[i])
    IN  acc[Len(seq)]

\* df.drop_duplicates()
DropDuplicates(t) == Table(t.cols, Distinct(t.rows))

Key(r) == <<r["inst_id"], r["uoa_id"]>>

\* lines 408-412: pd.pivot raises when two rows share index and column;
\* a unit with no row of a profile gets missing cells for it.  (pandas
\* orders the units by key; nothing below reads that order.)
PivotFails(t) ==
    \E i, j \in 1..Len(t.rows) :
        /\ i < j
        /\ Key(t.rows[i]) = Key(t.rows[j])
        /\ t.rows[i]["Profile"] = t.rows[j]["Profile"]

WideCols(t) ==
    {"inst_id", "uoa_id"} \cup
    {score_types[k] \o "_" \o p : k \in 1..Len(score_types), p \in Column(t, "Profile")}

Pivot(t) ==
    LET keys == Distinct([i \in 1..Len(t.rows) |-> Key(t.rows[i])])
        Cell(k, c) ==
            LET hits == {i \in 1..Len(t.rows) :
                            /\ Key(t.rows[i]) = k
                            /\ \E n \in 1..Len(score_types) :
                                 c = score_types[n] \o "_" \o t.rows[i]["Profile"]}
            IN  IF hits = {} THEN NaN
                ELSE LET i == CHOOSE h \in hits : TRUE
                         n == CHOOSE m \in 1..Len(score_types) :
                                  c = score_types[m] \o "_" \o t.rows[i]["Profile"]
                     IN  t.rows[i][score_types[n]]
    IN  Table(WideCols(t), [x \in 1..Len(keys) |->
            [c \in WideCols(t) |->
                CASE c = "inst_id" -> keys[x][1]
                  [] c = "uoa_id" -> keys[x][2]
                  [] OTHER -> Cell(keys[x], c)]])

\* lines 401-404
ResultsRenamed(t) ==
    Rename(Rename(t, "FTE of submitted staff", "fte"),
           "% of eligible staff submitted", "fte_pc")

\* whether sub occurs in s ('sub' in s)
Contains(s, sub) ==
    \E i \in 1..(Len(s) - Len(sub) + 1) : SubSeq(s, i, i + Len(sub) - 1) = sub

\* line 419
number_cols(t) == {c \in t.cols : Contains(c, "Number of doctoral")}

\* line 420: DataFrame.sum(axis=1) skips missing cells
RECURSIVE SumSkipNa(_, _)
SumSkipNa(r, cs) ==
    IF cs = {} THEN 0
    ELSE LET c == CHOOSE x \in cs : TRUE
         IN  (IF r[c] = NaN THEN 0 ELSE IntOf(r[c])) + SumSkipNa(r, cs \ {c})

AddDocTotal(t) ==
    Table(t.cols \cup {"num_doc_degrees_total"}, [i \in 1..Len(t.rows) |->
        [c \in t.cols \cup {"num_doc_degrees_total"} |->
            IF c = "num_doc_degrees_total"
            THEN IntToStr(SumSkipNa(t.rows[i], number_cols(t)))
            ELSE t.rows[i][c]]])

\* the slip of joining every row of the income sheet, whatever its source
TotInc_all(t) ==
    Rename(Rename(t, "Average income for academic years 2013-14 to 2019-20",
                  "av_income"),
           "Total income for academic years 2013-14 to 2019-20", "tot_income")

\* lines 425-428
TotInc(t) ==
    LET raw_env_income ==
            Rename(Rename(t, "Average income for academic years 2013-14 to 2019-20",
                          "av_income"),
                   "Total income for academic years 2013-14 to 2019-20", "tot_income")
    IN  Filter(raw_env_income, Eq(raw_env_income, "Income source", "Total income"))

\* lines 433-436
TotIncKind(t) ==
    LET raw_env_income_inkind ==
            Rename(t, "Total income for academic years 2013-14 to 2019-20",
                   "tot_inc_kind")
    IN  Filter(raw_env_income_inkind,
               Eq(raw_env_income_inkind, "Income source", "Total income-in-kind"))

\* pd.to_numeric(errors='coerce') of a score cell: a whole number, or missing
\* when the cell is not a number.  (Scores are modelled in whole per cent.)
ToNumeric(c) == IF IsIntText(c) THEN IntToStr(IntOf(c)) ELSE NaN

\* the slip of summing the bands that are there, a missing one counting 0
GPA_partial(r, profile) ==
    LET v(band) == ToNumeric(r[band \o "_" \o profile])
        n(band) == IF v(band) = NaN THEN 0 ELSE IntOf(v(band))
    IN  IntToStr(n("4*") * 4 + n("3*") * 3 + n("2*") * 2 + n("1*"))

\* lines 449-464: 100 x GPA of one profile, missing when a band is
GPA(r, profile) ==
    LET v(band) == ToNumeric(r[band \o "_" \o profile])
    IN  IF NaN \in {v("4*"), v("3*"), v("2*"), v("1*")} THEN NaN
        ELSE IntToStr(IntOf(v("4*")) * 4 + IntOf(v("3*")) * 3 +
                      IntOf(v("2*")) * 2 + IntOf(v("1*")))

\* line 465: str.extract(r'([-]?\d+)'): the first run of digits, with the
\* minus sign right before it if any; missing when there is no digit
ExtractInt(s) ==
    IF s = NaN \/ ~\E i \in 1..Len(s) : IsDigit(Char(s, i)) THEN NaN
    ELSE LET a == CHOOSE i \in 1..Len(s) :
                      IsDigit(Char(s, i)) /\ \A j \in 1..(i - 1) : ~IsDigit(Char(s, j))
             b == CHOOSE i \in a..Len(s) :
                      /\ \A j \in a..i : IsDigit(Char(s, j))
                      /\ (i = Len(s) \/ ~IsDigit(Char(s, i + 1)))
         IN  IF a > 1 /\ Char(s, a - 1) = "-" THEN SubSeq(s, a - 1, b)
             ELSE SubSeq(s, a, b)

\* line 466: pd.to_numeric(extracted, errors='coerce').astype('Int64')
UoaNumber(s) == ToNumeric(ExtractInt(s))

GpaCols == {"ICS_GPA", "Environment_GPA", "Output_GPA", "Overall_GPA"}

GpaNeeds ==
    {b \o "_" \o p : b \in {"4*", "3*", "2*", "1*"},
                     p \in {"Impact", "Environment", "Outputs", "Overall"}}

\* lines 449-466
AddGpa(t) ==
    Table(t.cols \cup GpaCols, [i \in 1..Len(t.rows) |->
        [c \in t.cols \cup GpaCols |->
            CASE c = "ICS_GPA" -> GPA(t.rows[i], "Impact")
              [] c = "Environment_GPA" -> GPA(t.rows[i], "Environment")
              [] c = "Output_GPA" -> GPA(t.rows[i], "Outputs")
              [] c = "Overall_GPA" -> GPA(t.rows[i], "Overall")
              [] c = "uoa_id" -> UoaNumber(t.rows[i]["uoa_id"])
              [] OTHER -> t.rows[i][c]]])

----------------------------------------------------------------------------
(* build_dataset: the steps *)

tables == <<df, df_clean, raw_results, wide_score_card, env, raw_dep, df_merge>>

\* the slip of saving the merged table on the way out of a failed run
Fails_saving(e) ==
    /\ pc' = "failed"
    /\ ret' = e
    /\ out_files' = Append(out_files,
                          [path |-> "../data/wrangled/df_clean_merged.csv",
                           table |-> df_merge])
    /\ UNCHANGED <<files, tables, log, arg>>

\* an uncaught exception ends the run
Fails(e) ==
    /\ pc' = "failed"
    /\ ret' = e
    /\ UNCHANGED <<files, tables, out_files, log, arg>>

\* line 60-61
ReadSurvey ==
    /\ pc = "read_survey"
    /\ df' = files.survey
    /\ log' = Append(log, <<61, Len(files.survey.rows)>>)
    /\ pc' = "consent"
    /\ UNCHANGED <<files, df_clean, raw_results, wide_score_card, env, raw_dep,
                   df_merge, out_files, arg, ret>>

\* lines 62-64
ConsentFilter ==
    /\ pc = "consent"
    /\ df' = Filter(df, Consented(df))
    /\ log' = log \o << <<62, Count(df, AnsweredNo(df))>>,
                         <<64, Len(Filter(df, Consented(df)).rows)>> >>
    /\ pc' = "q10"
    /\ UNCHANGED <<files, df_clean, raw_results, wide_score_card, env, raw_dep,
                   df_merge, out_files, arg, ret>>

\* lines 65-67
Q10Filter ==
    /\ pc = "q10"
    /\ df' = Filter(df, Q10Present(df))
    /\ log' = log \o << <<65, Count(df, Q10Missing(df))>>,
                         <<67, Len(Filter(df, Q10Present(df)).rows)>> >>
    /\ pc' = "recode"
    /\ UNCHANGED <<files, df_clean, raw_results, wide_score_card, env, raw_dep,
                   df_merge, out_files, arg, ret>>

\* lines 68-398
RecodeSurvey ==
    /\ pc = "recode"
    /\ \E q3_text \in BOOLEAN :
         LET r == Recode(df, q3_text)
         IN  IF ~r.ok THEN Fails(r)
             ELSE /\ df_clean' = r.val
                  /\ pc' = "load_results"
                  /\ UNCHANGED <<files, df, raw_results, wide_score_card, env,
                                 raw_dep, df_merge, out_files, log, arg, ret>>

PivotCols == {"inst_id", "uoa_id", "Profile"} \cup Range(score_types)

\* lines 400-412
LoadResults ==
    /\ pc = "load_results"
    /\ LET r == format_ids(files.results)
       IN  IF ~r.ok THEN Fails(r)
           ELSE IF ~(PivotCols \subseteq r.val.cols) THEN Fails(Raise("KeyError", 409))
           ELSE IF PivotFails(r.val) THEN Fails(Raise("ValueError", 408))
           ELSE /\ raw_results' = ResultsRenamed(r.val)
                /\ wide_score_card' = Pivot(Project(r.val, PivotCols))
                /\ pc' = "load_env"
                /\ UNCHANGED <<files, df, df_clean, env, raw_dep, df_merge,
                               out_files, log, arg, ret>>

\* lines 414-436
LoadEnv ==
    /\ pc = "load_env"
    /\ LET d == format_ids(files.doctoral)
           i == format_ids(files.income)
           k == format_ids(files.inkind)
       IN  IF ~d.ok THEN Fails(d)
           ELSE IF ~i.ok THEN Fails(i)
           ELSE IF ~k.ok THEN Fails(k)
           ELSE /\ env' = [raw_env_doctoral |-> AddDocTotal(d.val),
                           tot_inc |-> TotInc(i.val),
                           tot_inc_kind |-> TotIncKind(k.val)]
                /\ pc' = "join_dept"
                /\ UNCHANGED <<files, df, df_clean, raw_results, wide_score_card,
                               raw_dep, df_merge, out_files, log, arg, ret>>

\* lines 439-447: the four joins, the first failure ending the run
JoinDept ==
    /\ pc = "join_dept"
    /\ LET left == DropDuplicates(Project(raw_results,
                       {"inst_id", "Institution name", "uoa_id", "fte", "fte_pc"}))
           m1 == merge_ins_uoa(left, wide_score_card, "inst_id", "uoa_id")
           m2 == merge_ins_uoa(m1.val,
                     Project(env.raw_env_doctoral,
                             {"inst_id", "uoa_id", "num_doc_degrees_total"}),
                     "inst_id", "uoa_id")
           m3 == merge_ins_uoa(m2.val,
                     Project(env.tot_inc,
                             {"inst_id", "uoa_id", "av_income", "tot_income"}),
                     "inst_id", "uoa_id")
           m4 == merge_ins_uoa(m3.val,
                     Project(env.tot_inc_kind, {"inst_id", "uoa_id", "tot_inc_kind"}),
                     "inst_id", "uoa_id")
       IN  IF ~m1.ok THEN Fails(m1)
           ELSE IF ~m2.ok THEN Fails(m2)
           ELSE IF ~m3.ok THEN Fails(m3)
           ELSE IF ~m4.ok THEN Fails(m4)
           ELSE /\ raw_dep' = m4.val
                /\ pc' = "gpa"
                /\ UNCHANGED <<files, df, df_clean, raw_results, wide_score_card,
                               env, df_merge, out_files, log, arg, ret>>

\* lines 449-466
ComputeGpa ==
    /\ pc = "gpa"
    /\ IF ~(GpaNeeds \subseteq raw_dep.cols) THEN Fails(Raise("KeyError", 449))
       ELSE /\ raw_dep' = AddGpa(raw_dep)
            /\ pc' = "merge"
            /\ UNCHANGED <<files, df, df_clean, raw_results, wide_score_card,
                           env, df_merge, out_files, log, arg, ret>>

\* lines 467-471
FinalMerge ==
    /\ pc = "merge"
    /\ LET m == MergeLeft(df_clean, raw_dep, <<"Q3", "Q8_uoa">>,
                          <<"Institution name", "uoa_id">>)
       IN  /\ df_merge' = m
           /\ log' = Append(log, <<471, Count(m, IsNull(m, "ICS_GPA"))>>)
    /\ pc' = "audit"
    /\ UNCHANGED <<files, df, df_clean, raw_results, wide_score_card, env,
                   raw_dep, out_files, arg, ret>>

\* lines 473-484: the rows written to the audit file
AuditRows(m) ==
    LET temp1 == Filter(m, IsNull(m, "ICS_GPA"))
        temp2 == Filter(temp1, NotNull(temp1, "Q3"))
        temp3 == Filter(temp2, Ne(temp2, "Q3", "Other"))
    IN  Filter(temp3, NotNull(temp3, "Q8_uoa"))

AuditPath == "../data/to_check/institutions_didnt_submit_to_uoa.csv"
MergedPath == "../data/wrangled/df_clean_merged.csv"

\* lines 473-488
WriteAudit ==
    /\ pc = "audit"
    /\ out_files' = Append(out_files, [path |-> AuditPath, table |-> AuditRows(df_merge)])
    /\ log' = Append(log, <<485, Len(AuditRows(df_merge).rows)>>)
    /\ pc' = "classification"
    /\ UNCHANGED <<files, tables, arg, ret>>

\* lines 489-490
MergeClassification ==
    /\ pc = "classification"
    /\ IF "Q28" \notin files.classification.cols THEN Fails(Raise("KeyError", 490))
       ELSE /\ df_merge' = MergeLeft(df_merge, files.classification,
                                     <<"PIPD">>, <<"Q28">>)
            /\ pc' = "manual"
            /\ UNCHANGED <<files, df, df_clean, raw_results, wide_score_card,
                           env, raw_dep, out_files, log, arg, ret>>

\* lines 493-494: np.where(df_merge['Q1'] == 'Other', 0, df_merge[flag])
ForceFlags(t) ==
    Table(t.cols, [i \in 1..Len(t.rows) |->
        [c \in t.cols |->
            IF c \in {"is_oxbridge", "is_redbrick"} /\ t.rows[i]["Q1"] = "Other"
            THEN "0" ELSE t.rows[i][c]]])

\* lines 491-494
MergeManual ==
    /\ pc = "manual"
    /\ LET m == MergeLeft(df_merge, files.manual, <<"Q3">>, <<"Q3">>)
       IN  IF "Q3" \notin files.manual.cols THEN Fails(Raise("KeyError", 492))
           ELSE IF ~({"Q1", "is_oxbridge", "is_redbrick"} \subseteq m.cols)
                THEN Fails(Raise("KeyError", 493))
           ELSE /\ df_merge' = ForceFlags(m)
                /\ pc' = "save"
                /\ UNCHANGED <<files, df, df_clean, raw_results, wide_score_card,
                               env, raw_dep, out_files, log, arg, ret>>

\* lines 495-498
WriteMerged ==
    /\ pc = "save"
    /\ out_files' = Append(out_files, [path |-> MergedPath, table |-> df_merge])
    /\ log' = Append(log, <<498, Len(df_merge.rows)>>)
    /\ pc' = "done"
    /\ UNCHANGED <<files, tables, arg, ret>>

Next ==
    \/ ReadSurvey
    \/ ConsentFilter
    \/ Q10Filter
    \/ RecodeSurvey
    \/ LoadResults
    \/ LoadEnv
    \/ JoinDept
    \/ ComputeGpa
    \/ FinalMerge
    \/ WriteAudit
    \/ MergeClassification
    \/ MergeManual
    \/ WriteMerged

----------------------------------------------------------------------------
(* Direct calls of the helpers *)

CallFormatIds ==
    /\ pc = "call_format_ids"
    /\ ret' = format_ids(arg.df)
    /\ pc' = "returned"
    /\ UNCHANGED <<files, tables, out_files, log, arg>>

CallMergeInsUoa ==
    /\ pc = "call_merge_ins_uoa"
    /\ ret' = merge_ins_uoa(arg.df1, arg.df2, "inst_id", "uoa_id")
    /\ pc' = "returned"
    /\ UNCHANGED <<files, tables, out_files, log, arg>>

\* lines 138-289 on one respondent's Q8 and Q8_a: the subject-area code and
\* the three columns looked up from it, or the failure of astype('Int64')
SubjectArea(q8, q8_a) ==
    IF ~IsInt64(Q8Code(q8)) THEN Raise("ValueError", 174)
    ELSE LET uoa == Q8_uoa(q8, q8_a)
         IN  Return([Q8_uoa |-> uoa,
                     Q8_panel |-> Q8_panel(uoa),
                     Q8_stemshape |-> Q8_stemshape(uoa),
                     Q8_stemshape_binary |-> Q8_stemshape_binary(uoa)])

CallSubjectArea ==
    /\ pc = "call_subject_area"
    /\ ret' = SubjectArea(arg.Q8, arg.Q8_a)
    /\ pc' = "returned"
    /\ UNCHANGED <<files, df, df_clean, raw_results, wide_score_card, env,
                   raw_dep, df_merge, out_files, log, arg>>

\* lines 116-124 on one respondent's sub-columns Q7_1..Q7_n
CallCollapse ==
    /\ pc = "call_collapse"
    /\ ret' = Return(Collapse(arg.row, "Q7_", arg.n))
    /\ pc' = "returned"
    /\ UNCHANGED <<files, df, df_clean, raw_results, wide_score_card, env,
                   raw_dep, df_merge, out_files, log, arg>>

\* lines 312-321 and their three repeats on one item of one respondent
CallLikert ==
    /\ pc = "call_likert"
    /\ ret' = Likert(arg.cells, arg.family)
    /\ pc' = "returned"
    /\ UNCHANGED <<files, df, df_clean, raw_results, wide_score_card, env,
                   raw_dep, df_merge, out_files, log, arg>>

\* lines 449-466 on a department table of one row
CallGpa ==
    /\ pc = "call_gpa"
    /\ ret' = Return(AddGpa(arg.raw_dep))
    /\ pc' = "returned"
    /\ UNCHANGED <<files, df, df_clean, raw_results, wide_score_card, env,
                   raw_dep, df_merge, out_files, log, arg>>

\* lines 419-420 on a doctoral-degrees table whose ids are formatted
CallDocTotal ==
    /\ pc = "call_doc_total"
    /\ ret' = Return(AddDocTotal(arg.raw_env_doctoral))
    /\ pc' = "returned"
    /\ UNCHANGED <<files, df, df_clean, raw_results, wide_score_card, env,
                   raw_dep, df_merge, out_files, log, arg>>

----------------------------------------------------------------------------
(* Inputs *)

\* the most rows of a survey file whose rows differ in what the merge reads,
\* and of one whose rows differ in their consent and Q10 answers
MaxResp == 1
MaxSurvey == 2
\* the most rows a table handed to a helper has
MaxRows == 2

SurveyCols ==
    {"rid", "Q1", "Q2", "Q10", "Q3_c", "Q8", "Q8_a", "Q28"} \cup
    {"Q3_" \o IntToStr(q) : q \in 1..NumQ3}

\* a respondent who consents, answers Q10, took part in an evaluation
\* (Q3_1), and names institution U1 and the subject area Law
Typical ==
    [Q1 |-> "Yes", Q2 |-> "Yes", Q10 |-> "50", Q3_1 |-> "Yes: as an author",
     Q3_c |-> "U1", Q8 |-> "Law", Q28 |-> "1"]

SurveyRow(rid, k) ==
    [c \in SurveyCols |->
        IF c = "rid" THEN rid
        ELSE IF c \in DOMAIN k THEN k[c]
        ELSE IF c \in DOMAIN Typical THEN Typical[c]
        ELSE NaN]

\* the survey files of at most max rows whose rows vary as kinds say
Surveys(kinds, max) ==
    UNION {{Table(SurveyCols, [i \in 1..n |-> SurveyRow(IntToStr(i), f[i])]) :
                f \in [1..n -> kinds]} : n \in 0..max}

ConsentKinds ==
    [Q1 : {"Yes", "No", NaN}, Q2 : {"Yes", "No"}, Q10 : {"50", "", NaN}]

MergeKinds ==
    [Q3_1 : {"Other", "Yes: as an author"}, Q3_c : {"U1", "Other", NaN},
     Q8 : {"Law", "Other"}]

Profiles == <<"Outputs", "Impact", "Environment", "Overall">>

\* a submission of institution U1 (or a blank footer row) to unit 18
Unit(inst, letter, impact4) == [inst |-> inst, letter |-> letter, impact4 |-> impact4]

ResultsCols ==
    {"Institution code (UKPRN)", "Institution name", "Unit of assessment number",
     "Multiple submission letter", "Profile", "FTE of submitted staff",
     "% of eligible staff submitted"} \cup Range(score_types)

IdCells(u, c) ==
    CASE c \in {"Institution code (UKPRN)", "Institution UKPRN code"} -> u.inst
      [] c = "Unit of assessment number" -> IF u.inst = " " THEN NaN ELSE "18"
      [] c = "Multiple submission letter" -> u.letter

ResultsRows(u) ==
    IF u.inst = " "
    THEN <<[c \in ResultsCols |-> IF c = "Institution code (UKPRN)" THEN " " ELSE NaN]>>
    ELSE [p \in 1..Len(Profiles) |->
            [c \in ResultsCols |->
                CASE c = "Institution name" -> "U1"
                  [] c = "Profile" -> Profiles[p]
                  [] c = "4*" -> IF Profiles[p] = "Impact" THEN u.impact4 ELSE "20"
                  [] c = "3*" -> "50"
                  [] c = "2*" -> "20"
                  [] c = "1*" -> "10"
                  [] c = "Unclassified" -> "0"
                  [] c = "FTE of submitted staff" -> "10"
                  [] c = "% of eligible staff submitted" -> "100"
                  [] OTHER -> IdCells(u, c)]]

RECURSIVE Concat(_)
Concat(ss) == IF ss = <<>> THEN <<>> ELSE Head(ss) \o Concat(Tail(ss))

EnvIds == {"Institution UKPRN code", "Unit of assessment number",
           "Multiple submission letter"}

DoctoralCols ==
    EnvIds \cup {"Number of doctoral degrees awarded in academic year 2013",
                 "Number of doctoral degrees awarded in academic year 2014"}

IncomeCols ==
    EnvIds \cup {"Income source",
                 "Average income for academic years 2013-14 to 2019-20",
                 "Total income for academic years 2013-14 to 2019-20"}

InKindCols ==
    EnvIds \cup {"Income source",
                 "Total income for academic years 2013-14 to 2019-20"}

EnvRows(u, cols, sources) ==
    [s \in 1..Len(sources) |->
        [c \in cols |->
            IF c \in EnvIds THEN IdCells(u, c)
            ELSE IF c = "Income source" THEN sources[s]
            ELSE IF u.inst = " " THEN NaN
            ELSE IntToStr(s)]]

\* the input files of the evaluation: the results of the units, and the
\* three environment sheets covering env_units
DeptFiles(units, env_units) ==
    [results |-> Table(ResultsCols,
                     Concat([i \in 1..Len(units) |-> ResultsRows(units[i])])),
     doctoral |-> Table(DoctoralCols,
                     Concat([i \in 1..Len(env_units) |->
                         EnvRows(env_units[i], DoctoralCols, <<"-">>)])),
     income |-> Table(IncomeCols,
                     Concat([i \in 1..Len(env_units) |->
                         EnvRows(env_units[i], IncomeCols,
                                 <<"UK-based charities", "Total income">>)])),
     inkind |-> Table(InKindCols,
                     Concat([i \in 1..Len(env_units) |->
                         EnvRows(env_units[i], InKindCols,
                                 <<"Total income-in-kind">>)]))]

UnitLists ==
    { <<Unit("7", NaN, "20")>>,
      <<Unit("7", NaN, "-")>>,
      <<Unit("7", "A", "20"), Unit("7", "B", "20")>>,
      <<Unit(" ", NaN, NaN), Unit("7", NaN, "20")>> }

\* the units with their own environment rows, a unit the environment sheets
\* leave out, and a unit the environment sheets list twice
Depts ==
    {DeptFiles(u, u) : u \in UnitLists} \cup
    {DeptFiles(<<Unit("7", NaN, "20")>>, <<Unit("8", NaN, "20")>>),
     DeptFiles(<<Unit("7", NaN, "20")>>,
               <<Unit("7", NaN, "20"), Unit("7", NaN, "20")>>)}

ClassificationCols == {"Q28", "career"}
\* one row for the respondent, two rows for the respondent, and a file whose
\* header has no Q28
ClassificationFiles ==
    { Table(ClassificationCols, <<[Q28 |-> "1", career |-> "early"]>>),
      Table(ClassificationCols, <<[Q28 |-> "1", career |-> "early"],
                                  [Q28 |-> "1", career |-> "late"]>>),
      Table({"id", "career"}, <<[id |-> "1", career |-> "early"]>>) }

ManualCols == {"Q3", "is_oxbridge", "is_redbrick"}
ManualRow(q3, ox, red) == [Q3 |-> q3, is_oxbridge |-> ox, is_redbrick |-> red]
ManualFiles ==
    { Table(ManualCols, <<ManualRow("U1", "1", "0")>>),
      Table(ManualCols, <<ManualRow("U1", "1", "0"), ManualRow("Other", "1", "1")>>),
      Table(ManualCols, <<ManualRow("U1", "1", "0"), ManualRow("U1", "0", "1")>>) }

Files(survey, dept, classification, manual) ==
    [survey |-> survey, results |-> dept.results, doctoral |-> dept.doctoral,
     income |-> dept.income, inkind |-> dept.inkind,
     classification |-> classification, manual |-> manual]

NoFiles == Files(EmptyTable, DeptFiles(<<>>, <<>>), EmptyTable, EmptyTable)

\* nothing has run
Fresh ==
    /\ df = EmptyTable
    /\ df_clean = EmptyTable
    /\ raw_results = EmptyTable
    /\ wide_score_card = EmptyTable
    /\ env = [raw_env_doctoral |-> EmptyTable, tot_inc |-> EmptyTable,
              tot_inc_kind |-> EmptyTable]
    /\ raw_dep = EmptyTable
    /\ df_merge = EmptyTable
    /\ out_files = <<>>
    /\ log = <<>>
    /\ ret = NotCalled

\* build_dataset on surveys whose respondents differ in what the merge
\* reads, on each evaluation and each pair of lookup tables
Init ==
    /\ pc = "read_survey"
    /\ \E s \in Surveys(MergeKinds, MaxResp), d \in Depts,
          c \in ClassificationFiles, m \in ManualFiles :
         files = Files(s, d, c, m)
    /\ arg = <<>>
    /\ Fresh

Spec == Init /\ [][Next]_vars

\* the positions of a run
Stages == {"read_survey", "consent", "q10", "recode", "load_results", "load_env",
           "join_dept", "gpa", "merge", "audit", "classification", "manual",
           "save", "done", "failed"}

\* the interpreter runs the next statement of a run that has not ended: the
\* run moves to another position
Advance == pc \notin {"done", "failed"} /\ pc' \in Stages \ {pc}

SpecLive == Init /\ [][Next]_vars /\ WF_pc(Advance)

\* build_dataset on surveys whose respondents differ in their consent and
\* Q10 answers
InitSurvey ==
    /\ pc = "read_survey"
    /\ \E s \in Surveys(ConsentKinds, MaxSurvey) :
         files = Files(s, DeptFiles(<<Unit("7", NaN, "20")>>, <<Unit("7", NaN, "20")>>),
                       Table(ClassificationCols, <<[Q28 |-> "1", career |-> "early"]>>),
                       Table(ManualCols, <<ManualRow("U1", "1", "0")>>))
    /\ arg = <<>>
    /\ Fresh

SpecSurvey == InitSurvey /\ [][Next]_vars

\* the tables of at most MaxRows rows over the given rows
Tables(cols, rows) ==
    UNION {{Table(cols, f) : f \in [1..n -> rows]} : n \in 0..MaxRows}

FormatIdsRows(id) ==
    {[c \in {id, "Unit of assessment number", "Multiple submission letter"} |->
        CASE c = id -> i
          [] c = "Unit of assessment number" -> n
          [] c = "Multiple submission letter" -> l]
     : i \in {" ", "7", " 8", "x"}, n \in {"4", "04", NaN}, l \in {NaN, "A"}}

\* format_ids on tables that name the institution id either way or not at
\* all, with blank, whole, padded and non-numeric ids
FormatIdsInputs(id) ==
    Tables({id, "Unit of assessment number", "Multiple submission letter"},
           FormatIdsRows(id))

InitFormatIds ==
    /\ pc = "call_format_ids"
    /\ \E id \in {"Institution UKPRN code", "Institution code (UKPRN)", "UKPRN"} :
         \E t \in FormatIdsInputs(id) : arg = [df |-> t]
    /\ files = NoFiles
    /\ Fresh

SpecFormatIds == InitFormatIds /\ [][CallFormatIds]_vars

\* merge_ins_uoa on a left table of named units and a right table of valued
\* units, over two institutions and two submissions to one unit
LeftCols == {"inst_id", "uoa_id", "name"}
RightCols == {"inst_id", "uoa_id", "val"}

LeftRows ==
    {[inst_id |-> i, uoa_id |-> u, name |-> "n"] : i \in {"1", "2"}, u \in {"4", "4A"}}

RightRows ==
    {[inst_id |-> i, uoa_id |-> u, val |-> v] :
        i \in {"1", "2"}, u \in {"4", "4A"}, v \in {"v", "w"}}

InitMergeInsUoa ==
    /\ pc = "call_merge_ins_uoa"
    /\ \E a \in Tables(LeftCols, LeftRows), b \in Tables(RightCols, RightRows) :
         arg = [df1 |-> a, df2 |-> b]
    /\ files = NoFiles
    /\ Fresh

SpecMergeInsUoa == InitMergeInsUoa /\ [][CallMergeInsUoa]_vars

\* the subject-area names of the questionnaire, 'Other', a missing answer
\* and a name the questionnaire does not offer
CanonicalNames == {Q8Rules[i][1] : i \in 1..Len(Q8Rules)} \ {"Other"}
SubjectNames == CanonicalNames \cup {"Other", NaN, "Zoology"}

\* the write-ins the code knows, a missing one, and ones it does not know
WriteIns == {Q8aRules[i][1] : i \in 1..Len(Q8aRules)} \cup {NaN, "demography", "Law"}

InitSubjectArea ==
    /\ pc = "call_subject_area"
    /\ \E q8 \in SubjectNames, q8_a \in WriteIns : arg = [Q8 |-> q8, Q8_a |-> q8_a]
    /\ files = NoFiles
    /\ Fresh

SpecSubjectArea == InitSubjectArea /\ [][CallSubjectArea]_vars

\* the most sub-columns of a collapsed question
MaxParts == 4

\* what a sub-column of a multi-part question can hold: an option with its
\* explanation, nothing, a missing cell, the text 'nan', padded text, text
\* that opens with a colon, and text whose option reads 'nan'
PartCells ==
    {"Option A: foo", "Option D: bar", "", NaN, "nan", " b ", ": x", "nan: x"}

InitCollapse ==
    /\ pc = "call_collapse"
    /\ \E n \in 1..MaxParts :
         \E row \in [{"Q7_" \o IntToStr(q) : q \in 1..n} -> PartCells] :
            arg = [row |-> row, n |-> n]
    /\ files = NoFiles
    /\ Fresh

SpecCollapse == InitCollapse /\ [][CallCollapse]_vars

\* what a sub-column of an item can hold: nothing, an anchor of the family,
\* a bare rank, and text that is no rank
LikertCells(family) ==
    {family.top, family.bottom, family.middle, "2", "-1", "unsure"}

\* the rows of sub-columns with at most two answers
LikertRows(family) ==
    {cells \in [1..NumLikert -> LikertCells(family) \cup {NaN}] :
        Cardinality({q \in 1..NumLikert : cells[q] # NaN}) <= 2}

InitLikert ==
    /\ pc = "call_likert"
    /\ \E family \in LikertFamilies :
         \E cells \in LikertRows(family) : arg = [cells |-> cells, family |-> family]
    /\ files = NoFiles
    /\ Fresh

SpecLikert == InitLikert /\ [][CallLikert]_vars

\* the score cells of one profile of a department: whole percentages, a
\* dash or other text where the sheet gives no number, and missing cells
BandChoices(b) ==
    CASE b = "4*" -> {"20", "0", "-", NaN}
      [] b = "3*" -> {"50", "30", "x"}
      [] b = "2*" -> {"20", NaN}
      [] b = "1*" -> {"10", "0"}
      [] b = "Unclassified" -> {"0", "10", NaN}

BandCells ==
    {f \in [Range(score_types) -> UNION {BandChoices(b) : b \in Range(score_types)}] :
        \A b \in Range(score_types) : f[b] \in BandChoices(b)}

\* the score of a profile nothing is varied in
TypicalBands ==
    [b \in Range(score_types) |->
        CASE b = "4*" -> "20" [] b = "3*" -> "50" [] b = "2*" -> "20"
          [] b = "1*" -> "10" [] OTHER -> "0"]

\* a department row whose scores for one profile are the given ones
DeptRow(profile, bands) ==
    [c \in {"uoa_id"} \cup {b \o "_" \o p : b \in Range(score_types), p \in Range(Profiles)} |->
        IF c = "uoa_id" THEN "18A"
        ELSE LET b == CHOOSE x \in Range(score_types) :
                          \E p \in Range(Profiles) : c = x \o "_" \o p
             IN  IF c = b \o "_" \o profile THEN bands[b] ELSE TypicalBands[b]]

InitGpa ==
    /\ pc = "call_gpa"
    /\ \E profile \in Range(Profiles), bands \in BandCells :
         arg = [raw_dep |-> Table(DOMAIN DeptRow(profile, bands),
                                  <<DeptRow(profile, bands)>>),
                profile |-> profile]
    /\ files = NoFiles
    /\ Fresh

SpecGpa == InitGpa /\ [][CallGpa]_vars

\* the rows of a doctoral-degrees sheet for unit (7, 18): a count or an
\* empty cell for each of the two years
DocRows ==
    {[c \in (DoctoralCols \ EnvIds) \cup {"inst_id", "uoa_id"} |->
        CASE c = "inst_id" -> "7"
          [] c = "uoa_id" -> "18"
          [] c = "Number of doctoral degrees awarded in academic year 2013" -> a
          [] OTHER -> b]
     : a \in {"3", "0", NaN}, b \in {"3", "0", NaN}}

InitDocTotal ==
    /\ pc = "call_doc_total"
    /\ \E t \in Tables((DoctoralCols \ EnvIds) \cup {"inst_id", "uoa_id"}, DocRows) :
         arg = [raw_env_doctoral |-> t]
    /\ files = NoFiles
    /\ Fresh

SpecDocTotal == InitDocTotal /\ [][CallDocTotal]_vars

----------------------------------------------------------------------------
(* Properties *)

Rows(t) == {t.rows[i] : i \in 1..Len(t.rows)}

\* the tables written to a path
WrittenTo(path) ==
    {out_files[k].table : k \in {n \in 1..Len(out_files) : out_files[n].path = path}}

\* the number the log line written at a source line holds
LogNum(line) == (CHOOSE e \in Range(log) : e[1] = line)[2]
Logged(line) == \E e \in Range(log) : e[1] = line

\* whether a department row joins a respondent row
Joins(r, d) == d["Institution name"] = r["Q3"] /\ d["uoa_id"] = r["Q8_uoa"]
HasDept(r) == \E d \in Rows(raw_dep) : Joins(r, d)

AfterFinalMerge == pc \in {"audit", "classification", "manual", "save", "done"}

\* C1: the merged CSV has as many rows as df_clean and no respondent twice
C1_OneRowPerRespondent ==
    \A t \in WrittenTo(MergedPath) :
        /\ Len(t.rows) = Len(df_clean.rows)
        /\ \A i, j \in 1..Len(t.rows) : i # j => t.rows[i]["rid"] # t.rows[j]["rid"]

\* C2: when merge_ins_uoa returns, the result has as many rows as df1
C2_RowCountPreserved ==
    (pc = "returned" /\ ret.ok) => Len(ret.val.rows) = Len(arg.df1.rows)

\* C3: when merge_ins_uoa returns, every (inst_id, uoa_id) pair of df1 is
\* the pair of some row of df2, and no returned row is null-filled
C3_PairsComplete ==
    (pc = "returned" /\ ret.ok) =>
        /\ \A l \in Rows(arg.df1) : \E r \in Rows(arg.df2) : Key(l) = Key(r)
        /\ \A x \in Rows(ret.val) : x["val"] # NaN

\* the rows of b that join row l, by position, and the number of rows a
\* left join gives l
MatchesOf(l, b) == {j \in 1..Len(b.rows) : Key(b.rows[j]) = Key(l)}
Width(l, b) == IF MatchesOf(l, b) = {} THEN 1 ELSE Cardinality(MatchesOf(l, b))
RECURSIVE WidthBefore(_, _, _)
WidthBefore(a, b, i) ==
    IF i = 1 THEN 0 ELSE WidthBefore(a, b, i - 1) + Width(a.rows[i - 1], b)

\* out is the left join of a with b on both keys: row i of a fills the
\* positions after those of the rows before it, once per joining row of b
\* in b's order, or once with val missing
IsLeftJoin(out, a, b) ==
    /\ out.cols = a.cols \cup b.cols
    /\ Len(out.rows) = WidthBefore(a, b, Len(a.rows) + 1)
    /\ \A i \in 1..Len(a.rows) :
         LET l == a.rows[i]
             m == MatchesOf(l, b)
         IN  \A k \in 1..Width(l, b) :
               LET x == out.rows[WidthBefore(a, b, i) + k]
               IN  /\ \A c \in a.cols : x[c] = l[c]
                   /\ x["val"] =
                        IF m = {} THEN NaN
                        ELSE b.rows[CHOOSE j \in m :
                                 Cardinality({n \in m : n <= j}) = k]["val"]

\* C4: merge_ins_uoa raises an assertion error exactly when a value of
\* either key column of df1 occurs nowhere in that column of df2, and
\* returns the left join otherwise
C4_FailsIffKeyValueAbsent ==
    pc = "returned" =>
        LET absent ==
                \E l \in Rows(arg.df1) :
                    \/ \A r \in Rows(arg.df2) : r["inst_id"] # l["inst_id"]
                    \/ \A r \in Rows(arg.df2) : r["uoa_id"] # l["uoa_id"]
        IN  /\ ~ret.ok <=> absent
            /\ ~ret.ok => ret.err = "AssertionError"
            /\ ret.ok => IsLeftJoin(ret.val, arg.df1, arg.df2)

C4_Witness ==
    /\ pc = "returned"
    /\ ret.ok
    /\ Len(arg.df1.rows) = 2
    /\ \E x \in Rows(ret.val) : x["val"] = NaN
    /\ \E x \in Rows(ret.val) : x["val"] # NaN

\* C5: in the merged CSV a row whose Q3 is 'Other' has both flags 0
C5_OtherFlagsZero ==
    \A t \in WrittenTo(MergedPath) : \A x \in Rows(t) :
        x["Q3"] = "Other" => x["is_oxbridge"] = "0" /\ x["is_redbrick"] = "0"

\* C6: the audit CSV holds exactly the rows of the final merge that joined
\* no department row and have an institution other than 'Other' and a
\* subject-area code
C6_AuditIsUnmatched ==
    pc = "classification" =>
        \A t \in WrittenTo(AuditPath) :
            t.rows = SelectSeq(df_merge.rows,
                         LAMBDA x : /\ ~HasDept(x)
                                    /\ x["Q3"] \notin {NaN, "Other"}
                                    /\ x["Q8_uoa"] # NaN)

\* C7: from the final merge on, every row of df_clean is a row of df_merge,
\* with every department column missing when it joined no department row
C7_NoRespondentDropped ==
    AfterFinalMerge =>
        \A r \in Rows(df_clean) : \E x \in Rows(df_merge) :
            /\ \A c \in df_clean.cols : x[c] = r[c]
            /\ ~HasDept(r) => \A c \in raw_dep.cols : x[c] = NaN

C7_Witness ==
    /\ pc = "done"
    /\ raw_dep.rows # <<>>
    /\ \E r \in Rows(df_clean) : ~HasDept(r) /\ r["Q3"] # NaN /\ r["Q8_uoa"] # NaN

\* the respondents who answered No to Q1 or to Q2
Refused ==
    {r["rid"] : r \in {x \in Rows(files.survey) : x["Q1"] = "No" \/ x["Q2"] = "No"}}

\* C8: no respondent who answered No to Q1 or Q2 is in a table derived
\* after the consent filter, and the consent log line counts the rows the
\* filter removed
C8_ConsentFilter ==
    /\ pc \notin {"read_survey", "consent"} => Column(df, "rid") \cap Refused = {}
    /\ Column(df_clean, "rid") \cap Refused = {}
    /\ Column(df_merge, "rid") \cap Refused = {}
    /\ \A k \in 1..Len(out_files) : Column(out_files[k].table, "rid") \cap Refused = {}
    /\ Logged(62) => LogNum(62) = LogNum(61) - LogNum(64)
    /\ pc = "q10" => LogNum(62) = Len(files.survey.rows) - Len(df.rows)

C8_Witness ==
    /\ pc = "done"
    /\ LogNum(62) > 0
    /\ \E t \in WrittenTo(MergedPath) : t.rows # <<>>

\* C9: every row that reaches recoding answered Yes to both consent
\* questions and has a Q10 answer
C9_ConsentedAndAnswered ==
    pc = "recode" =>
        \A r \in Rows(df) :
            r["Q1"] = "Yes" /\ r["Q2"] = "Yes" /\ r["Q10"] \notin {"", NaN}

\* the institution id column of a table handed to format_ids
IdCols(t) == t.cols \cap {"Institution UKPRN code", "Institution code (UKPRN)"}
IdCol(t) == CHOOSE c \in IdCols(t) : TRUE
NonBlank(t) == SelectSeq(t.rows, LAMBDA r : r[IdCol(t)] # " ")

\* the only ids int() rejects are blank placeholders
OnlyBlanksRejected(t) ==
    /\ IdCols(t) # {}
    /\ \A r \in Rows(t) : r[IdCol(t)] = " " \/ IsIntText(r[IdCol(t)])

C11_UoaIdIsNumberThenLetter ==
    (pc = "returned" /\ ret.ok) =>
        LET kept == NonBlank(arg.df)
        IN  \A k \in 1..Len(ret.val.rows) :
              LET uoa == ret.val.rows[k]["uoa_id"]
                  number == kept[k]["Unit of assessment number"]
                  letter == kept[k]["Multiple submission letter"]
                  digits == Len(IntToStr(IntOf(number)))
              IN  /\ IntOf(SubSeq(uoa, 1, digits)) = IntOf(number)
                  /\ AllDigits(SubSeq(uoa, 1, digits))
                  /\ SubSeq(uoa, digits + 1, Len(uoa)) =
                        (IF letter = NaN THEN "" ELSE letter)
                  /\ Strip(uoa) # ""

C11_Witness ==
    /\ pc = "returned"
    /\ ret.ok
    /\ Len(ret.val.rows) = 2
    /\ ret.val.rows[1]["uoa_id"] = "4"
    /\ ret.val.rows[1]["Unit of assessment number"] = "04"
    /\ ret.val.rows[2]["uoa_id"] = "4A"

RulesFor(rules, code) == {i \in 1..Len(rules) : rules[i][1] = code}

\* C13: for a subject-area code in 1..34 each of the panel, domain and
\* binary lookups has one rule, the panel is A up to 6, B up to 12, C up to
\* 24 and D beyond, the domain is STEM for 1, 2, 3 and 5..12 and SHAPE
\* otherwise, and the binary flag is 1 exactly for STEM and 0 exactly for
\* SHAPE
C13_PanelAndDomainAgree ==
    (pc = "returned" /\ ret.ok /\ ret.val.Q8_uoa # NaN) =>
        LET code == ret.val.Q8_uoa
            c == IntOf(code)
            panel == ret.val.Q8_panel
            domain == ret.val.Q8_stemshape
            flag == ret.val.Q8_stemshape_binary
        IN  c \in 1..34 =>
              /\ Cardinality(RulesFor(PanelRules, code)) = 1
              /\ Cardinality(RulesFor(StemShapeRules, code)) = 1
              /\ Cardinality(RulesFor(StemShapeBinaryRules, code)) = 1
              /\ panel = (IF c <= 6 THEN "A" ELSE IF c <= 12 THEN "B"
                          ELSE IF c <= 24 THEN "C" ELSE "D")
              /\ domain = (IF c \in {1, 2, 3} \cup (5..12) THEN "STEM" ELSE "SHAPE")
              /\ flag \in {"0", "1"}
              /\ flag = "1" <=> domain = "STEM"
              /\ flag = "0" <=> domain = "SHAPE"
              /\ panel = "B" => domain = "STEM"
              /\ panel \in {"C", "D"} => domain = "SHAPE"
              /\ (panel = "A" /\ domain = "SHAPE") <=> c = 4

C13_Witness ==
    /\ pc = "returned"
    /\ ret.ok
    /\ ret.val.Q8_uoa = "4"
    /\ ret.val.Q8_panel = "A"
    /\ ret.val.Q8_stemshape = "SHAPE"
    /\ ret.val.Q8_stemshape_binary = "0"

Reverse(seq) == [i \in 1..Len(seq) |-> seq[Len(seq) + 1 - i]]

\* the code of a known write-in
WriteInCode(q8_a) ==
    CASE q8_a \in {"Demography", "Criminology", "Gerontology"} -> "21"
      [] q8_a = "Medical ethics" -> "30"
      [] q8_a = "Political economy" -> "16"

\* C14: the 34 subject-area names get distinct codes in 1..34 and 'Other'
\* gets none; a known write-in gets its own code whatever Q8 says; and
\* within each chain of overwrites no two rules test the same value, so
\* that the chains applied backwards give the same code
C14_SubjectAreaCode ==
    (pc = "returned" /\ ret.ok) =>
        LET q8 == arg.Q8
            q8_a == arg.Q8_a
            code == ret.val.Q8_uoa
            known == q8_a \in {"Demography", "Criminology", "Gerontology",
                               "Medical ethics", "Political economy"}
        IN  /\ Cardinality(CanonicalNames) = 34
            /\ known => code = WriteInCode(q8_a)
            /\ (~known /\ q8 \in CanonicalNames) =>
                  /\ code # NaN
                  /\ IntOf(code) \in 1..34
                  /\ \A n \in CanonicalNames \ {q8} : Q8_uoa(n, q8_a) # code
            /\ (~known /\ q8 = "Other") => code = NaN
            /\ Cardinality(RulesFor(Q8Rules, q8)) <= 1
            /\ Cardinality(RulesFor(Q8aRules, q8_a)) <= 1
            /\ code = WhereChain(Reverse(Q8aRules), q8_a,
                          AsInt64(WhereChain(Reverse(Q8Rules), q8, q8)))

C14_Witness ==
    /\ pc = "returned"
    /\ ret.ok
    /\ arg.Q8 = "Law"
    /\ arg.Q8_a = "Demography"
    /\ ret.val.Q8_uoa = "21"

\* the tokens of a colon-separated text
RECURSIVE Split(_)
Split(s) ==
    IF FirstPos(s, ":") = 0 THEN <<s>>
    ELSE <<SubSeq(s, 1, FirstPos(s, ":") - 1)>>
             \o Split(SubSeq(s, FirstPos(s, ":") + 1, Len(s)))

RECURSIVE Join(_)
Join(tokens) ==
    IF tokens = <<>> THEN ""
    ELSE IF Len(tokens) = 1 THEN tokens[1]
    ELSE tokens[1] \o ":" \o Join(Tail(tokens))

\* the sub-columns of the collapsed row in their order, and their cleaned
\* values
Parts == [q \in 1..arg.n |-> arg.row["Q7_" \o IntToStr(q)]]
Cleaned == [q \in 1..arg.n |-> CleanPart(Parts[q])]

\* the claim as it stands: no token of the output is the sentinel
C15_NoSentinelToken ==
    pc = "returned" /\ ret.ok /\ "row" \in DOMAIN arg
        => "nan" \notin Range(Split(ret.val))

\* C15: the collapsed text is the colon-join, in sub-column order, of the
\* non-empty cleaned values; it neither starts nor ends with a colon and
\* has no two colons in a row; a missing cell and a cell that is exactly
\* 'nan' give no token, and 'nan' is a token only where the text of a
\* sub-column, stripped and cut at its first colon, is 'nan'
C15_CollapseIsColonJoin ==
    (pc = "returned" /\ ret.ok /\ "row" \in DOMAIN arg) =>
        LET out == ret.val
            kept == SelectSeq(Cleaned, LAMBDA t : t # "")
        IN  /\ out = Join(kept)
            /\ out # "" => Split(out) = kept
            /\ out # "" => Char(out, 1) # ":" /\ Char(out, Len(out)) # ":"
            /\ \A i \in 1..(Len(out) - 1) : ~(Char(out, i) = ":" /\ Char(out, i + 1) = ":")
            /\ (\A q \in 1..arg.n : Parts[q] \in {NaN, "nan", ""}) => out = ""
            /\ "nan" \in Range(Split(out)) =>
                  \E q \in 1..arg.n :
                      /\ Parts[q] \notin {NaN, "nan"}
                      /\ TruncAtColon(Strip(Parts[q])) = "nan"
            /\ Parts = <<"Option A: foo", "", "nan", "Option D: bar">>
                  => out = "Option A:Option D"

C15_Witness ==
    /\ pc = "returned"
    /\ ret.ok
    /\ "row" \in DOMAIN arg
    /\ Parts = <<"Option A: foo", "", "nan", "Option D: bar">>
    /\ ret.val = "Option A:Option D"

\* C16: the collapsed item is the value of the lowest-numbered sub-column
\* that is not missing, missing when all seven are; the three anchors of
\* the family read 3, -3 and 0 and any other whole number reads as itself;
\* four missing sub-columns and then "(3) extremely possible" give 3; and
\* this holds for each of the four families
C16_FirstAnswerAsInteger ==
    (pc = "returned" /\ "cells" \in DOMAIN arg) =>
        LET cells == arg.cells
            family == arg.family
            answered == {q \in 1..NumLikert : cells[q] # NaN}
            lowest == CHOOSE q \in answered : \A p \in answered : q <= p
            value == cells[lowest]
        IN  /\ Len(cells) = 7
            /\ answered = {} => ret.ok /\ ret.val = NaN
            /\ (answered # {} /\ value = family.top) => ret.ok /\ ret.val = "3"
            /\ (answered # {} /\ value = family.bottom) => ret.ok /\ ret.val = "-3"
            /\ (answered # {} /\ value = family.middle) => ret.ok /\ ret.val = "0"
            /\ (answered # {} /\ IsIntText(value)) =>
                  ret.ok /\ IntOf(ret.val) = IntOf(value)
            /\ (cells = <<NaN, NaN, NaN, NaN, "(3) extremely possible", NaN, NaN>>
                  /\ family.name = "Q12") => ret.ok /\ ret.val = "3"

C16_Witness ==
    /\ pc = "returned"
    /\ "cells" \in DOMAIN arg
    /\ arg.cells = <<NaN, NaN, NaN, NaN, "(3) extremely possible", NaN, NaN>>
    /\ ret.ok
    /\ ret.val = "3"

\* the GPA column of a profile
GpaCol(profile) ==
    CASE profile = "Impact" -> "ICS_GPA"
      [] profile = "Environment" -> "Environment_GPA"
      [] profile = "Outputs" -> "Output_GPA"
      [] profile = "Overall" -> "Overall_GPA"

\* the four graded bands of a profile of a department row
Graded(r, profile) ==
    [k \in 1..4 |-> r[score_types[k] \o "_" \o profile]]

\* the claim as it stands: the percentages 20, 50, 20, 10 give 2.9
C17_ExampleGives290 ==
    (pc = "returned" /\ "raw_dep" \in DOMAIN arg) =>
        \A p \in Range(Profiles) :
            Graded(arg.raw_dep.rows[1], p) = <<"20", "50", "20", "10">>
                => ret.val.rows[1][GpaCol(p)] = "290"

\* C17: for each profile, 100 x GPA is 4, 3, 2 and 1 times the
\* percentages of the bands 4*, 3*, 2* and 1*, whatever the Unclassified
\* band holds, so that 20, 50, 20, 10 give 2.8; and the GPA is missing,
\* neither zero nor the sum of the bands that are there, when one of the
\* four is missing or not a number
C17_GpaIsWeightedSum ==
    (pc = "returned" /\ "raw_dep" \in DOMAIN arg) =>
        \A p \in Range(Profiles) :
            LET g == Graded(arg.raw_dep.rows[1], p)
                gpa == ret.val.rows[1][GpaCol(p)]
            IN  /\ (\A k \in 1..4 : IsIntText(g[k])) =>
                      /\ gpa # NaN
                      /\ IntOf(gpa) = 4 * IntOf(g[1]) + 3 * IntOf(g[2])
                                          + 2 * IntOf(g[3]) + IntOf(g[4])
                /\ (\E k \in 1..4 : ~IsIntText(g[k])) => gpa = NaN
                /\ g = <<"20", "50", "20", "10">> => gpa = "280"

C17_Witness ==
    /\ pc = "returned"
    /\ "raw_dep" \in DOMAIN arg
    /\ Graded(arg.raw_dep.rows[1], "Impact") = <<"-", "50", "20", "10">>
    /\ arg.raw_dep.rows[1]["Unclassified_Impact"] = "10"
    /\ ret.val.rows[1]["ICS_GPA"] = NaN
    /\ ret.val.rows[1]["Overall_GPA"] = "280"

\* no two rows of a table have the same (inst_id, uoa_id)
OneRowPerUnit(t) ==
    \A i, j \in 1..Len(t.rows) : i # j => Key(t.rows[i]) # Key(t.rows[j])

\* C18: the score card after the reshape, and the department table after
\* the four joins, have one row for each (inst_id, uoa_id)
C18_OneRowPerUnit ==
    /\ pc = "load_env" => OneRowPerUnit(wide_score_card)
    /\ pc = "gpa" => OneRowPerUnit(wide_score_card) /\ OneRowPerUnit(raw_dep)

\* C19: the total of doctoral degrees is missing in every row where the
\* count of a year is missing
C19_NullsPropagate ==
    (pc = "returned" /\ "raw_env_doctoral" \in DOMAIN arg) =>
        \A i \in 1..Len(arg.raw_env_doctoral.rows) :
            (\E c \in number_cols(arg.raw_env_doctoral) :
                 arg.raw_env_doctoral.rows[i][c] = NaN)
                => ret.val.rows[i]["num_doc_degrees_total"] = NaN

\* the rows of the results sheet with a blank institution id
BlankResults ==
    {i \in 1..Len(files.results.rows) :
        files.results.rows[i]["Institution code (UKPRN)"] = " "}

\* C20: when format_ids has dropped rows of the results sheet, a log line
\* written by format_ids gives their number; and the income table that is
\* joined has every row of the formatted income sheet
C20_OnlyLoggedRemovals ==
    /\ (pc = "load_env" /\ BlankResults # {}) =>
          \E e \in Range(log) : e[1] \in 13..36 /\ e[2] = Cardinality(BlankResults)
    /\ pc = "join_dept" =>
          Len(env.tot_inc.rows) = Len(format_ids(files.income).val.rows)

\* the rows of a sheet that are about the unit of the department row d
SheetRowsFor(sheet, d) ==
    {r \in Rows(sheet) :
        /\ IsIntText(r["Institution UKPRN code"])
        /\ IntToStr(IntOf(r["Institution UKPRN code"])) = d["inst_id"]
        /\ r["Unit of assessment number"] # NaN
        /\ UoaId(r["Unit of assessment number"], r["Multiple submission letter"])
              = d["uoa_id"]}

TotalLabels == {"Total income", "Total income-in-kind"}

\* a row its sheet marks as the total of the unit
IsTotalRow(r) == "Income source" \in DOMAIN r /\ r["Income source"] \in TotalLabels

AvIncome == "Average income for academic years 2013-14 to 2019-20"
TotIncome == "Total income for academic years 2013-14 to 2019-20"

\* C21 as stated: every environment value of a department row, the doctoral
\* total included, is a cell of a total row of its sheet
C21_AllFromTotalRows ==
    pc = "gpa" =>
        \A d \in Rows(raw_dep) :
            /\ d["num_doc_degrees_total"] # NaN =>
                  \E r \in SheetRowsFor(files.doctoral, d) :
                      IsTotalRow(r) /\ \E c \in DOMAIN r : r[c] = d["num_doc_degrees_total"]
            /\ d["av_income"] # NaN =>
                  \E r \in SheetRowsFor(files.income, d) :
                      IsTotalRow(r) /\ r[AvIncome] = d["av_income"]
            /\ d["tot_inc_kind"] # NaN =>
                  \E r \in SheetRowsFor(files.inkind, d) :
                      IsTotalRow(r) /\ r[TotIncome] = d["tot_inc_kind"]

\* C21: the two income tables that are joined hold only the rows of their
\* Total income and Total income-in-kind source, so the income values of a
\* department row are those of such a row of its unit; the doctoral table is
\* joined whole, its value being the sum of the yearly counts of a row of
\* the unit
C21_IncomeFromTotalRows ==
    /\ pc = "join_dept" =>
          /\ \A r \in Rows(env.tot_inc) : r["Income source"] = "Total income"
          /\ \A r \in Rows(env.tot_inc_kind) :
                 r["Income source"] = "Total income-in-kind"
          /\ Len(env.raw_env_doctoral.rows)
                 = Cardinality({i \in 1..Len(files.doctoral.rows) :
                       files.doctoral.rows[i]["Institution UKPRN code"] # " "})
    /\ pc = "gpa" =>
          \A d \in Rows(raw_dep) :
              /\ d["num_doc_degrees_total"] # NaN =>
                    \E r \in SheetRowsFor(files.doctoral, d) :
                        d["num_doc_degrees_total"]
                            = IntToStr(SumSkipNa(r, number_cols(files.doctoral)))
              /\ (d["av_income"] # NaN \/ d["tot_income"] # NaN) =>
                    \E r \in SheetRowsFor(files.income, d) :
                        /\ r["Income source"] = "Total income"
                        /\ r[AvIncome] = d["av_income"]
                        /\ r[TotIncome] = d["tot_income"]
              /\ d["tot_inc_kind"] # NaN =>
                    \E r \in SheetRowsFor(files.inkind, d) :
                        /\ r["Income source"] = "Total income-in-kind"
                        /\ r[TotIncome] = d["tot_inc_kind"]

\* a department row has its three environment values, and the income sheet
\* has a row of another source for its unit
C21_Witness ==
    /\ pc = "gpa"
    /\ \E d \in Rows(raw_dep) :
          /\ d["num_doc_degrees_total"] # NaN
          /\ d["av_income"] # NaN
          /\ d["tot_inc_kind"] # NaN
          /\ \E r \in SheetRowsFor(files.income, d) :
                 r["Income source"] # "Total income" /\ r[AvIncome] # d["av_income"]

\* the paths of the files written so far, in the order of writing
Paths == [i \in 1..Len(out_files) |-> out_files[i].path]

Outcomes == {"done", "failed"}

\* a run that completed has written the audit file and then the merged
\* file; a run that failed has an error and has not written the merged
\* file; the merged file is never written before the audit file
C22_Outcome ==
    /\ Paths \in {<<>>, <<AuditPath>>, <<AuditPath, MergedPath>>}
    /\ pc = "done" => Paths = <<AuditPath, MergedPath>> /\ ret = NotCalled
    /\ pc = "failed" => ~ret.ok /\ ret # NotCalled /\ MergedPath \notin Range(Paths)

\* C22: every run ends, completed with the audit file and then the merged
\* file written, or failed without the merged file; the failing step writes
\* no file and no step follows the end of a run
C22_OneOfTwoOutcomes ==
    /\ []C22_Outcome
    /\ [][pc \notin Outcomes /\ (pc' = "failed" => out_files' = out_files)]_vars
    /\ <>[](pc \in Outcomes)

\* a run that failed after it wrote the audit file
C22_Witness == pc = "failed" /\ Paths = <<AuditPath>>

=============================================================================
